---------------------------- MODULE Spec2Model ----------------------------
(***************************************************************************)
(* A model of grpc_ares_wrapper.c: one top-level resolve call              *)
(* (resolve_address_ares_impl), the request it creates, the hostname       *)
(* sub-requests and the SRV query it issues, and the completion callbacks  *)
(* (on_hostbyname_done_cb, on_srv_query_done_cb) that the DNS library      *)
(* invokes, either inline from the issuing call or later from another      *)
(* thread.                                                                 *)
(*                                                                         *)
(* Granularity.  A callback is a sequence of steps.  A step groups         *)
(* operations that commute with every step of the other threads: the       *)
(* invocation of on_hostbyname_done_cb and gpr_mu_lock are grouped with    *)
(* the first access that follows them, gpr_mu_unlock with the last access  *)
(* before it, the frees of destroy_hostbyname_request with the decrement   *)
(* before them.  The accesses of on_srv_query_done_cb to r->success and    *)
(* r->error are not under the mutex: they race with those of               *)
(* on_hostbyname_done_cb, so the read and the write of r->error are steps  *)
(* of their own on both sides, and every order of them can be seen.        *)
(***************************************************************************)
EXTENDS Integers, Sequences, FiniteSets, TLC

(* ------------------------------ bounds -------------------------------- *)

\* the largest number of hostname queries one SRV reply makes the callback
\* spawn (one or two for each target record)
MaxSpawn == 2

\* the number of threads that call grpc_ares_init and grpc_ares_cleanup
MaxThreads == 2

\* the largest number of such calls one thread makes
MaxCalls == 2

\* the largest number of addresses in one host entry (h_addr_list); with
\* two, a batch appended to the output list has an order of its own
MaxAddrs == 2

(* ---------------------------- C strings ------------------------------- *)

\* A port string is a tuple of characters; a null pointer is NullPort.
NullPort == <<"<null>">>

\* A host string is a TLA+ string; a null pointer is NullHost.
NullHost == "<null>"

Digits == <<"0", "1", "2", "3", "4", "5", "6", "7", "8", "9">>

IsDigit(c) == \E d \in 1..10 : Digits[d] = c

DigitVal(c) == (CHOOSE d \in 1..10 : Digits[d] = c) - 1

\* isspace in the "C" locale: space, \t, \n, \v, \f, \r (the fourth
\* member is the vertical tab, written as the character itself)
Blanks == {" ", "\t", "\n", "", "\f", "\r"}

\* the first place of s at or after i that holds no white space
RECURSIVE SkipBlanks(_, _)
SkipBlanks(s, i) ==
    IF i <= Len(s) /\ s[i] \in Blanks THEN SkipBlanks(s, i + 1) ELSE i

\* the run of digits of s that starts at i, without its leading zeros once
\* lead is FALSE
RECURSIVE DigitRun(_, _, _)
DigitRun(s, i, lead) ==
    IF i > Len(s) \/ ~IsDigit(s[i]) THEN <<>>
    ELSE IF lead /\ DigitVal(s[i]) = 0 THEN DigitRun(s, i + 1, TRUE)
    ELSE <<DigitVal(s[i])>> \o DigitRun(s, i + 1, FALSE)

\* the digits of LONG_MAX = 2^63 - 1 and of -LONG_MIN = 2^63 (long has 64
\* bits)
LongMaxDigits ==
    <<9, 2, 2, 3, 3, 7, 2, 0, 3, 6, 8, 5, 4, 7, 7, 5, 8, 0, 7>>

LongMinDigits ==
    <<9, 2, 2, 3, 3, 7, 2, 0, 3, 6, 8, 5, 4, 7, 7, 5, 8, 0, 8>>

\* the number with digits run is greater than the number with digits lim
Exceeds(run, lim) ==
    \/ Len(run) > Len(lim)
    \/ /\ Len(run) = Len(lim)
       /\ \E k \in 1..Len(run) :
              /\ run[k] > lim[k]
              /\ \A j \in 1..(k - 1) : run[j] = lim[j]

\* the low 32 bits of the number with digits run, as two 16-bit halves
\* <<high, low>>, after acc
RECURSIVE Low32(_, _, _)
Low32(run, i, acc) ==
    IF i > Len(run) THEN acc
    ELSE LET l == acc[2] * 10 + run[i]
             h == acc[1] * 10 + (l \div 65536)
         IN  Low32(run, i + 1, <<h % 65536, l % 65536>>)

\* the two's complement of a 32-bit pattern
Neg32(w) ==
    IF w[2] = 0 THEN <<(65536 - w[1]) % 65536, 0>>
    ELSE <<65535 - w[1], 65536 - w[2]>>

\* (int) of a 32-bit pattern
Int32(w) == (IF w[1] >= 32768 THEN w[1] - 65536 ELSE w[1]) * 65536 + w[2]

\* atoi is (int)strtol(s, NULL, 10): white space is skipped, then a sign is
\* read if there is one, then the run of digits; a value beyond long is
\* LONG_MAX or LONG_MIN, and the conversion to int keeps the low 32 bits
atoi(s) ==
    LET b == SkipBlanks(s, 1)
        signed == b <= Len(s) /\ s[b] \in {"+", "-"}
        neg == signed /\ s[b] = "-"
        run == DigitRun(s, IF signed THEN b + 1 ELSE b, TRUE)
        w == Low32(run, 1, <<0, 0>>)
    IN  IF neg
        THEN IF Exceeds(run, LongMinDigits) THEN 0 ELSE Int32(Neg32(w))
        ELSE IF Exceeds(run, LongMaxDigits) THEN 0 - 1 ELSE Int32(w)

\* (unsigned short)x
U16(x) == x % 65536

\* htons on a little-endian host: the two bytes swapped
htons(x) == (x % 256) * 256 + (x \div 256)

HttpPort == 80

HttpsPort == 443

strhtons_host(port) ==
    IF port = <<"h", "t", "t", "p">> THEN HttpPort
    ELSE IF port = <<"h", "t", "t", "p", "s">> THEN HttpsPort
    ELSE U16(atoi(port))

strhtons(port) ==
    IF port = <<"h", "t", "t", "p">> THEN htons(HttpPort)
    ELSE IF port = <<"h", "t", "t", "p", "s">> THEN htons(HttpsPort)
    ELSE htons(U16(atoi(port)))

(* ------------------------------ inputs -------------------------------- *)

\* the (name, default_port) arguments of the calls: a name that does not
\* parse, a name without a port, a name with a port
Calls == {<<"[bad", NullPort>>,
          <<"[bad", <<"h", "t", "t", "p", "s">> >>,
          <<"srv.test", NullPort>>,
          <<"srv.test", <<"h", "t", "t", "p", "s">> >>,
          <<"srv.test:5000", <<"h", "t", "t", "p", "s">> >>}

\* names with a port, and the port as gpr_split_host_port returns it
NamePorts ==
    {<<"srv.test:5000", <<"5", "0", "0", "0">> >>,
     <<"srv.test:443", <<"4", "4", "3">> >>,
     <<"srv.test:http", <<"h", "t", "t", "p">> >>,
     <<"srv.test:70000", <<"7", "0", "0", "0", "0">> >>,
     <<"srv.test:80abc", <<"8", "0", "a", "b", "c">> >>,
     <<"srv.test:abc", <<"a", "b", "c">> >>,
     <<"srv.test:-1", <<"-", "1">> >>,
     <<"srv.test: 80", <<" ", "8", "0">> >>,
     <<"srv.test:\t-2", <<"\t", "-", "2">> >>}

\* the calls that differ in the port string only, for what becomes of it
PortCalls ==
    {<<e[1], d>> : e \in NamePorts,
                   d \in {NullPort, <<"h", "t", "t", "p">>}}
    \cup {<<"srv.test", <<"h", "t", "t", "p">> >>,
          <<"srv.test", <<"h", "t", "t", "p", "s">> >>,
          <<"srv.test", <<"8", "0", "8", "0">> >>}

\* gpr_split_host_port on the names of Calls and PortCalls
gpr_split_host_port(n) ==
    IF n = "srv.test" THEN [host |-> "srv.test", port |-> NullPort]
    ELSE IF \E e \in NamePorts : e[1] = n
         THEN [host |-> "srv.test",
               port |-> (CHOOSE e \in NamePorts : e[1] = n)[2]]
    ELSE [host |-> NullHost, port |-> NullPort]

\* the target records of a parsed SRV reply, in parser order; the port is
\* in host byte order, as ares_parse_srv_reply returns it
SrvHost(k) ==
    IF k = 1 THEN "lb1.test" ELSE IF k = 2 THEN "lb2.test" ELSE "lb3.test"

SrvPort(k) == 8080 + k

(* --------------------------- query identities ------------------------- *)

\* hostname sub-requests: 1 and 2 are the direct AAAA and A queries, 2k+1
\* and 2k+2 the AAAA and A queries spawned from SRV target record k
HostQ == 1..(2 * MaxSpawn + 2)

Family(q) == IF q % 2 = 1 THEN "AF_INET6" ELSE "AF_INET"

Statuses == {"ARES_SUCCESS", "ARES_ENOTFOUND"}

(* ------------------------------ errors -------------------------------- *)

\* An error is a chain of records: the first is the root, the rest its
\* descendants.  Every failure allocates a record of its own (id).
GRPC_ERROR_NONE == <<>>

ErrRec_bare(msg, detail, id) == [msg |-> msg, detail |-> "", id |-> id]

\* an error created from msg; detail is what grpc_error_set_str and
\* gpr_asprintf attach to it (the target address, the status)
ErrRec(msg, detail, id) == [msg |-> msg, detail |-> detail, id |-> id]

AresError(status, id) ==
    ErrRec("C-ares status is not ARES_SUCCESS", status, id)

grpc_error_add_child_drop(src, child) == <<src>>

grpc_error_add_child(src, child) == <<src>> \o child

\* lines 279-283 and 325-329: r->error after a failure, from the value of
\* r->error the callback read
ChainError(e, read) ==
    IF read = GRPC_ERROR_NONE THEN <<e>> ELSE grpc_error_add_child(e, read)

(* ---------------------------- the state ------------------------------- *)

VARIABLES
    name,              \* argument: the name to resolve
    default_port,      \* argument: the default port, or NullPort
    is_lb_addrs_out,   \* argument: load-balancer mode
    ipv6_loopback,     \* what grpc_ipv6_loopback_available() returns
    pc,                \* where resolve_address_ares_impl is
    host, port,        \* its locals: the strings parsed from the name
    r_state,           \* "none", "live" or "freed": the grpc_ares_request
    ev_driver,         \* "none", "created", "started" or "destroyed"
    pending_queries,   \* r->pending_queries
    mu,                \* holder of r->mu (a hostname query), 0 when free
    success,           \* r->success
    error,             \* r->error
    addrs,             \* the caller's slot: [present, list]
    on_done,           \* the errors on_done was scheduled with, in order
    hr,                \* the hostname sub-requests
    cb,                \* the activations of on_hostbyname_done_cb
    srv,               \* the SRV query and the activation of its callback
    hist,              \* history: what the claims observe
    g_basic_init,      \* the once guard: TRUE when do_basic_init has run
    g_init_mu,         \* the process-wide mutex
    th,                \* the threads inside grpc_ares_init and _cleanup
    lib                \* the threads inside ares_library_init or _cleanup

vars == <<g_basic_init, g_init_mu, th, lib, name, default_port, is_lb_addrs_out, ipv6_loopback, pc, host, port,
          r_state, ev_driver, pending_queries, mu, success, error, addrs,
          on_done, hr, cb, srv, hist>>

inputs == <<name, default_port, is_lb_addrs_out, ipv6_loopback>>

globals == <<g_basic_init, g_init_mu, th, lib>>

Threads == 1..MaxThreads

\* g_init_mu: inited is whether gpr_mu_init has run on it, holder the
\* thread that holds it (0: none), inits how often gpr_mu_init has run
NoMu == [inited |-> FALSE, holder |-> 0, inits |-> 0]

\* a thread: op is the function it is in ("none" between calls), pc the
\* place in it, status what ares_library_init returned, result what
\* grpc_ares_init returned last, entered how often the call in progress
\* has invoked the library, calls the calls made so far
NoTh == [op |-> "none", pc |-> "idle", status |-> "ARES_SUCCESS",
         result |-> "GRPC_ERROR_NONE", entered |-> 0, calls |-> 0]

NoHr == [alive |-> FALSE, host |-> NullHost, port |-> 0, is_balancer |-> FALSE]

\* pc: "none" (not issued), "pending" (handed to the library, callback not
\* yet past gpr_mu_lock), "ok" (mutex held, line 167), "fail" (mutex held,
\* line 279), "destroy" (line 286), "done"
\* status and naddr are the callback's arguments (the status, and the size
\* of h_addr_list of the host entry), read the value of r->error read at
\* line 279
NoCb == [pc |-> "none", caller |-> "lib", status |-> "ARES_SUCCESS",
         naddr |-> 0, read |-> GRPC_ERROR_NONE]

NoSrv == [pc |-> "none", caller |-> "lib", status |-> "ARES_SUCCESS",
          parsed |-> FALSE, nrec |-> 0, it |-> 0, read |-> GRPC_ERROR_NONE]

NoHist == [uaf |-> FALSE,          \* a freed request or driver was used
           r_destroys |-> 0,       \* times the request was freed
           drv_destroys |-> 0,     \* times the driver was destroyed
           unlocked |-> FALSE,     \* a callback accessed success or error
                                   \* without holding the mutex
           nested |-> FALSE,       \* a hostname callback ran inside the SRV
                                   \* callback
           unpolled |-> {},        \* the queries handed to the library since
                                   \* the last start of the driver (0: SRV)
           order |-> <<>>,         \* the queries in the order they were
                                   \* handed to the library
           starts |-> 0,           \* the starts of the driver
           host_frees |-> 0,       \* times the host string was freed
           port_frees |-> 0,       \* times the port string was freed
           hr_frees |-> [q \in HostQ |-> 0]]
                                   \* times the host copy of each
                                   \* sub-request was freed

\* the state when resolve_address_ares_impl is called with one of calls
InitOf(calls) ==
    /\ \E c \in calls : name = c[1] /\ default_port = c[2]
    /\ is_lb_addrs_out \in BOOLEAN
    /\ ipv6_loopback \in BOOLEAN
    /\ pc = "call"
    /\ host = NullHost
    /\ port = NullPort
    /\ r_state = "none"
    /\ ev_driver = "none"
    /\ pending_queries = 0
    /\ mu = 0
    /\ success = FALSE
    /\ error = GRPC_ERROR_NONE
    /\ addrs = [present |-> FALSE, list |-> <<>>]
    /\ on_done = <<>>
    /\ hr = [q \in HostQ |-> NoHr]
    /\ cb = [q \in HostQ |-> NoCb]
    /\ srv = NoSrv
    /\ hist = NoHist
    /\ g_basic_init = FALSE
    /\ g_init_mu = NoMu
    /\ th = [t \in Threads |-> NoTh]
    /\ lib = {}

Init == InitOf(Calls)

(* ----------------------- reference counting --------------------------- *)

\* gpr_ref_init(&r->pending_queries, 1)
InitialRefs == 1

grpc_ares_request_ref_none(n) == n

\* gpr_ref
grpc_ares_request_ref(n) == n + 1

gpr_unref_late(n) == n = 0

gpr_unref_early(n) == n <= 2

\* gpr_unref: whether this decrement took the count from 1 to 0
gpr_unref(n) == n = 1

\* the driver exists: created, and perhaps started, and not destroyed
DriverAlive == ev_driver \in {"created", "started"}

\* grpc_ares_request_unref; h is the history after the caller's own
\* accesses, cbk whether the caller is a completion callback. The last
\* reference reads r->error for on_done, and no caller holds r->mu here
grpc_ares_request_unref(h, cbk) ==
    /\ pending_queries' = pending_queries - 1
    /\ IF gpr_unref(pending_queries)
       THEN /\ on_done' = Append(on_done, error)
            /\ r_state' = "freed"
            /\ ev_driver' = "destroyed"
            /\ hist' = [h EXCEPT
                          !.uaf = @ \/ r_state /= "live" \/ ~DriverAlive,
                          !.unlocked = @ \/ cbk,
                          !.r_destroys = @ + 1,
                          !.drv_destroys = @ + 1]
       ELSE /\ UNCHANGED <<on_done, r_state, ev_driver>>
            /\ hist' = [h EXCEPT !.uaf = @ \/ r_state /= "live"]

\* the history after an access to the request
UseRequest(h) == [h EXCEPT !.uaf = @ \/ r_state /= "live"]

\* the history after an access to the request's driver
UseDriver(h) == [h EXCEPT !.uaf = @ \/ r_state /= "live" \/ ~DriverAlive]

\* the history after query q (0: the SRV query) is handed to the library
Handed(h, q) ==
    [h EXCEPT !.unpolled = @ \cup {q}, !.order = Append(@, q)]

grpc_ares_ev_driver_start_none(h) ==
    /\ UNCHANGED ev_driver
    /\ hist' = UseDriver(h)

\* grpc_ares_ev_driver_start: the driver polls the sockets of every query
\* the library holds
grpc_ares_ev_driver_start(h) ==
    /\ ev_driver' = IF DriverAlive THEN "started" ELSE ev_driver
    /\ hist' = [UseDriver(h) EXCEPT !.unpolled = {}, !.starts = @ + 1]

\* The library runs a callback on another thread only when the driver polls
\* its sockets, which it does from its first start on; a callback that the
\* library runs inline, inside the call that issues the query, needs no
\* driver.
Polled(c) == c = "lib" => ev_driver = "started"

\* an activation is open from the moment its query is handed to the
\* library until its callback has returned
Open(p) == p \notin {"none", "done"}

\* the issuer c is inside a library call that is running a callback inline
Blocked(c) ==
    \/ \E q \in HostQ : cb[q].caller = c /\ Open(cb[q].pc)
    \/ srv.caller = c /\ Open(srv.pc)

\* create_hostbyname_request followed by ares_gethostbyname, called by c:
\* the library keeps the query, or runs its callback before it returns
IssueHost(q, c, h, p, bal) ==
    /\ hr' = [hr EXCEPT ![q] = [alive |-> TRUE, host |-> h, port |-> p,
                                is_balancer |-> bal]]
    /\ pending_queries' = grpc_ares_request_ref(pending_queries)
    /\ \E who \in {"lib", c} :
          cb' = [cb EXCEPT ![q] = [NoCb EXCEPT !.pc = "pending", !.caller = who]]

(* -------------------- resolve_address_ares_impl ----------------------- *)

\* gpr_free(p) for the string p of one of the counters: nothing happens for
\* a null pointer
gpr_free(n, p, null) == IF p = null THEN n ELSE n + 1

\* lines 410-413, error_cleanup: the history after host h and port p are
\* freed
error_cleanup(hs, h, p) ==
    [hs EXCEPT !.host_frees = gpr_free(@, h, NullHost),
               !.port_frees = gpr_free(@, p, NullPort)]

\* lines 347-365: split the name, fall back on the default port
Parse ==
    /\ pc = "call"
    /\ LET hp == gpr_split_host_port(name) IN
         /\ host' = hp.host
         /\ IF hp.host = NullHost
            THEN /\ on_done' = Append(on_done,
                        <<ErrRec("unparseable host:port", name, 0)>>)
                 /\ port' = hp.port
                 /\ pc' = "returned"
            ELSE IF hp.port = NullPort
            THEN IF default_port = NullPort
                 THEN /\ on_done' = Append(on_done,
                             <<ErrRec("no port in name", name, 0)>>)
                      /\ port' = hp.port
                      /\ pc' = "returned"
                 ELSE /\ port' = default_port
                      /\ pc' = "create"
                      /\ UNCHANGED on_done
            ELSE /\ port' = hp.port
                 /\ pc' = "create"
                 /\ UNCHANGED on_done
    /\ hist' = IF pc' = "returned" THEN error_cleanup(hist, host', port')
               ELSE hist
    /\ UNCHANGED <<globals, inputs, r_state, ev_driver, pending_queries, mu,
                   success, error, addrs, hr, cb, srv>>

\* lines 367-372 and 410-413: grpc_ares_ev_driver_create fails
CreateFails ==
    /\ pc = "create"
    /\ pc' = "returned"
    /\ hist' = error_cleanup(hist, host, port)
    /\ UNCHANGED <<globals, inputs, host, port, r_state, ev_driver,
                   pending_queries, mu, success, error, addrs, on_done, hr, cb,
                   srv>>

\* lines 367-387: the driver and the request are created
Create ==
    /\ pc = "create"
    /\ ev_driver' = "created"
    /\ r_state' = "live"
    /\ mu' = 0
    /\ success' = FALSE
    /\ error' = GRPC_ERROR_NONE
    /\ pending_queries' = InitialRefs
    /\ pc' = IF ipv6_loopback THEN "v6" ELSE "v4"
    /\ UNCHANGED <<globals, inputs, host, port, addrs, on_done, hr, cb, srv, hist>>

\* lines 388-392
Direct6 ==
    /\ pc = "v6"
    /\ IssueHost(1, "main", host, strhtons(port), FALSE)
    /\ pc' = "v4"
    /\ hist' = Handed(UseDriver(hist), 1)
    /\ UNCHANGED <<globals, inputs, host, port, r_state, ev_driver, mu, success,
                   error, addrs, on_done, srv>>

\* lines 393-395
Direct4 ==
    /\ pc = "v4"
    /\ ~Blocked("main")
    /\ IssueHost(2, "main", host, strhtons(port), FALSE)
    /\ pc' = IF is_lb_addrs_out THEN "srv" ELSE "start"
    /\ hist' = Handed(UseDriver(hist), 2)
    /\ UNCHANGED <<globals, inputs, host, port, r_state, ev_driver, mu, success,
                   error, addrs, on_done, srv>>

\* lines 396-404: grpc_ares_request_ref, then ares_query
IssueSrv ==
    /\ pc = "srv"
    /\ ~Blocked("main")
    /\ pending_queries' = grpc_ares_request_ref(pending_queries)
    /\ \E who \in {"lib", "main"} :
          srv' = [NoSrv EXCEPT !.pc = "pending", !.caller = who]
    /\ pc' = "start"
    /\ hist' = Handed(UseDriver(hist), 0)
    /\ UNCHANGED <<globals, inputs, host, port, r_state, ev_driver, mu, success,
                   error, addrs, on_done, hr, cb>>

\* line 406: grpc_ares_ev_driver_start
Start ==
    /\ pc = "start"
    /\ ~Blocked("main")
    /\ pc' = "unref"
    /\ grpc_ares_ev_driver_start(hist)
    /\ UNCHANGED <<globals, inputs, host, port, r_state, pending_queries, mu, success,
                   error, addrs, on_done, hr, cb, srv>>

\* lines 407-408: the creator's reference is released
Release ==
    /\ pc = "unref"
    /\ grpc_ares_request_unref(hist, FALSE)
    /\ pc' = "returned"
    /\ UNCHANGED <<globals, inputs, host, port, mu, success, error, addrs, hr, cb, srv>>

(* ----------------------- on_hostbyname_done_cb ------------------------ *)

\* the sizes of the host entries the library reports with ARES_SUCCESS
AddrCounts == {0, MaxAddrs}

\* the h_addrtype of the host entry the library reports for query q: the
\* type is the library's to choose, and the callback never compares it with
\* the family it asked for.  An A query is answered with AF_INET entries,
\* an AAAA query with AF_INET6 entries or (a name that is an IPv4 literal)
\* with AF_INET entries; an entry without addresses has one type here
AddrTypes(q) ==
    IF cb[q].naddr > 0 /\ Family(q) = "AF_INET6"
    THEN {"AF_INET", "AF_INET6"}
    ELSE {"AF_INET"}

\* The library invokes the callback of hostname query q with a status and,
\* on success, a host entry of n addresses; the callback takes the mutex.
\* lines 163-166 on success: r->error is cleared.
\* lines 163, 273-279 on failure: r->success and r->error are read; with
\* r->success set the mutex is released at once (line 285).
HostBegin(q) ==
    /\ cb[q].pc = "pending"
    /\ Polled(cb[q].caller)
    /\ mu = 0
    /\ \E st \in Statuses :
       \E n \in (IF st = "ARES_SUCCESS" THEN AddrCounts ELSE {0}) :
          IF st = "ARES_SUCCESS"
          THEN /\ mu' = q
               /\ error' = GRPC_ERROR_NONE
               /\ cb' = [cb EXCEPT ![q].pc = "ok", ![q].status = st,
                                   ![q].naddr = n]
          ELSE IF ~success
          THEN /\ mu' = q
               /\ cb' = [cb EXCEPT ![q].pc = "fail", ![q].status = st,
                                   ![q].read = error]
               /\ UNCHANGED error
          ELSE /\ cb' = [cb EXCEPT ![q].pc = "destroy", ![q].status = st]
               /\ UNCHANGED <<mu, error>>
    /\ hist' = [UseRequest(hist) EXCEPT !.nested = @ \/ cb[q].caller = "srv"]
    /\ UNCHANGED <<globals, inputs, pc, host, port, r_state, ev_driver, pending_queries,
                   success, addrs, on_done, hr, srv>>

Entry_unnamed(q, j, t) ==
    IF is_lb_addrs_out
    THEN [family |-> t, port |-> hr[q].port, addr |-> <<q, j>>,
          is_balancer |-> hr[q].is_balancer,
          balancer_name |-> NullHost,
          user_data |-> "NULL"]
    ELSE [family |-> t, port |-> hr[q].port, addr |-> <<q, j>>]

\* one entry of the output list: lines 182-194, 203-213 (load-balancer
\* list) and 239-262 (plain list); the family is t, the h_addrtype of the
\* host entry of query q, the address bytes are those of its
\* h_addr_list[j - 1]
Entry(q, j, t) ==
    IF is_lb_addrs_out
    THEN [family |-> t, port |-> hr[q].port, addr |-> <<q, j>>,
          is_balancer |-> hr[q].is_balancer,
          balancer_name |-> IF hr[q].is_balancer THEN hr[q].host ELSE NullHost,
          user_data |-> "NULL"]
    ELSE [family |-> t, port |-> hr[q].port, addr |-> <<q, j>>]

AppendBatch_front(list, q, n, t) == [j \in 1..n |-> Entry(q, j, t)] \o list

\* lines 168-181 and 224-238: the list is created when absent and grows by
\* the addresses of the host entry
AppendBatch(list, q, n, t) == list \o [j \in 1..n |-> Entry(q, j, t)]

HostOk_locked(q, t) ==
    /\ cb[q].pc = "ok"
    /\ success' = TRUE
    /\ addrs' = [present |-> TRUE,
                 list |-> AppendBatch(addrs.list, q, cb[q].naddr, t)]
    /\ cb' = [cb EXCEPT ![q].pc = "destroy"]
    /\ hist' = UseRequest(hist)
    /\ UNCHANGED <<globals, inputs, pc, host, port, r_state, ev_driver,
                   pending_queries, mu, error, on_done, hr, srv>>

\* lines 167-272, 285: r->success is set, the addresses of the host entry,
\* of type t, are appended, the mutex is released
HostOk(q, t) ==
    /\ cb[q].pc = "ok"
    /\ success' = TRUE
    /\ addrs' = [present |-> TRUE,
                 list |-> AppendBatch(addrs.list, q, cb[q].naddr, t)]
    /\ mu' = 0
    /\ cb' = [cb EXCEPT ![q].pc = "destroy"]
    /\ hist' = UseRequest(hist)
    /\ UNCHANGED <<globals, inputs, pc, host, port, r_state, ev_driver, pending_queries,
                   error, on_done, hr, srv>>

\* lines 279-285: the new error is stored, the mutex is released.  Line 282
\* names r->error again: the child is the value read at line 279 or, read
\* anew, what the SRV callback stored since
HostFail(q) ==
    /\ cb[q].pc = "fail"
    /\ \E again \in {cb[q].read, error} :
          error' = IF cb[q].read = GRPC_ERROR_NONE
                   THEN ChainError(AresError(cb[q].status, q), cb[q].read)
                   ELSE grpc_error_add_child(AresError(cb[q].status, q),
                                             again)
    /\ mu' = 0
    /\ cb' = [cb EXCEPT ![q].pc = "destroy", ![q].read = GRPC_ERROR_NONE]
    /\ hist' = UseRequest(hist)
    /\ UNCHANGED <<globals, inputs, pc, host, port, r_state, ev_driver, pending_queries,
                   success, addrs, on_done, hr, srv>>

\* line 286, destroy_hostbyname_request: the parent is released, the
\* sub-request and its copy of the host name freed; the callback returns
HostDestroy(q) ==
    /\ cb[q].pc = "destroy"
    /\ grpc_ares_request_unref([hist EXCEPT !.hr_frees[q] = @ + 1], TRUE)
    /\ hr' = [hr EXCEPT ![q] = NoHr]
    /\ cb' = [cb EXCEPT ![q].pc = "done", ![q].caller = "lib"]
    /\ UNCHANGED <<globals, inputs, pc, host, port, mu, success, error, addrs, srv>>

(* ------------------------ on_srv_query_done_cb ------------------------ *)

\* the numbers of target records a parsed SRV reply may hold
SrvCounts == 0..(IF ipv6_loopback THEN MaxSpawn \div 2 ELSE MaxSpawn)

\* the library invokes the callback of the SRV query with a status and an
\* answer, which ares_parse_srv_reply parses into nrec target records
SrvDeliver ==
    /\ srv.pc = "pending"
    /\ Polled(srv.caller)
    /\ \E st \in Statuses :
       \E ok \in (IF st = "ARES_SUCCESS" THEN BOOLEAN ELSE {FALSE}) :
       \E n \in (IF ok THEN SrvCounts ELSE {0}) :
          srv' = [srv EXCEPT !.pc = "entry", !.status = st, !.parsed = ok,
                             !.nrec = n]
    /\ UNCHANGED <<globals, inputs, pc, host, port, r_state, ev_driver, pending_queries,
                   mu, success, error, addrs, on_done, hr, cb, hist>>

SrvLoop_once(k) ==
    IF k > srv.nrec /\ k > 1 THEN [srv EXCEPT !.pc = "unref", !.it = 0]
    ELSE [srv EXCEPT !.pc = IF ipv6_loopback THEN "v6" ELSE "v4", !.it = k]

SrvLoop_skip6(k) ==
    IF k > srv.nrec THEN [srv EXCEPT !.pc = "unref", !.it = 0]
    ELSE [srv EXCEPT !.pc = "v4", !.it = k]

\* the step of the loop of lines 300-313 that follows the start of record k
SrvLoop(k) ==
    IF k > srv.nrec THEN [srv EXCEPT !.pc = "unref", !.it = 0]
    ELSE [srv EXCEPT !.pc = IF ipv6_loopback THEN "v6" ELSE "v4", !.it = k]

\* lines 294-299 on success: the answer is parsed, the channel fetched.
\* line 319 on failure: r->success is read, the mutex not held.
SrvEntry ==
    /\ srv.pc = "entry"
    /\ IF srv.status = "ARES_SUCCESS"
       THEN IF srv.parsed
            THEN /\ srv' = SrvLoop(1)
                 /\ hist' = UseDriver(hist)
            ELSE /\ srv' = [srv EXCEPT !.pc = "unref"]
                 /\ UNCHANGED hist
       ELSE /\ srv' = [srv EXCEPT !.pc = IF success THEN "unref" ELSE "read"]
            /\ hist' = [UseRequest(hist) EXCEPT !.unlocked = TRUE]
    /\ UNCHANGED <<globals, inputs, pc, host, port, r_state, ev_driver, pending_queries,
                   mu, success, error, addrs, on_done, hr, cb>>

\* line 325: r->error is read, the mutex not held
SrvRead ==
    /\ srv.pc = "read"
    /\ srv' = [srv EXCEPT !.pc = "write", !.read = error]
    /\ hist' = [UseRequest(hist) EXCEPT !.unlocked = TRUE]
    /\ UNCHANGED <<globals, inputs, pc, host, port, r_state, ev_driver, pending_queries,
                   mu, success, error, addrs, on_done, hr, cb>>

\* lines 326-328: r->error is written, the mutex not held.  Line 328 names
\* r->error again: the child is the value read at line 325 or, read anew,
\* what a hostname callback stored since
SrvWrite ==
    /\ srv.pc = "write"
    /\ \E again \in {srv.read, error} :
          error' = IF srv.read = GRPC_ERROR_NONE
                   THEN ChainError(AresError(srv.status, 0), srv.read)
                   ELSE grpc_error_add_child(AresError(srv.status, 0), again)
    /\ srv' = [srv EXCEPT !.pc = "unref", !.read = GRPC_ERROR_NONE]
    /\ hist' = [UseRequest(hist) EXCEPT !.unlocked = TRUE]
    /\ UNCHANGED <<globals, inputs, pc, host, port, r_state, ev_driver, pending_queries,
                   mu, success, addrs, on_done, hr, cb>>

\* lines 302-307: the AAAA query of the current target record
SrvIssue6 ==
    /\ srv.pc = "v6"
    /\ ~Blocked("srv")
    /\ IssueHost(2 * srv.it + 1, "srv", SrvHost(srv.it), SrvPort(srv.it), TRUE)
    /\ srv' = [srv EXCEPT !.pc = "v4"]
    /\ hist' = Handed(UseRequest(hist), 2 * srv.it + 1)
    /\ UNCHANGED <<globals, inputs, pc, host, port, r_state, ev_driver, mu, success,
                   error, addrs, on_done>>

\* lines 308-311: the A query of the current target record
SrvIssue4 ==
    /\ srv.pc = "v4"
    /\ ~Blocked("srv")
    /\ IssueHost(2 * srv.it + 2, "srv", SrvHost(srv.it), SrvPort(srv.it), TRUE)
    /\ srv' = [srv EXCEPT !.pc = "start"]
    /\ hist' = Handed(UseRequest(hist), 2 * srv.it + 2)
    /\ UNCHANGED <<globals, inputs, pc, host, port, r_state, ev_driver, mu, success,
                   error, addrs, on_done>>

\* line 312: grpc_ares_ev_driver_start, then the next record
SrvStart ==
    /\ srv.pc = "start"
    /\ ~Blocked("srv")
    /\ srv' = SrvLoop(srv.it + 1)
    /\ grpc_ares_ev_driver_start(hist)
    /\ UNCHANGED <<globals, inputs, pc, host, port, r_state, pending_queries, mu,
                   success, error, addrs, on_done, hr, cb>>

\* lines 331-333: the unit of the SRV query is released; the callback
\* returns
SrvUnref ==
    /\ srv.pc = "unref"
    /\ grpc_ares_request_unref(hist, TRUE)
    /\ srv' = [srv EXCEPT !.pc = "done", !.caller = "lib"]
    /\ UNCHANGED <<globals, inputs, pc, host, port, mu, success, error, addrs, hr, cb>>

(* ----------------- grpc_ares_init and grpc_ares_cleanup --------------- *)

\* what a resolve call reads and writes
resolver == <<inputs, pc, host, port, r_state, ev_driver, pending_queries, mu,
              success, error, addrs, on_done, hr, cb, srv, hist>>

\* what ares_library_init returns
LibStatuses == {"ARES_SUCCESS", "ARES_ELOADIPHLPAPI"}

\* thread t calls grpc_ares_init
CallInit(t) ==
    /\ th[t].pc = "idle"
    /\ th[t].calls < MaxCalls
    /\ th' = [th EXCEPT ![t].op = "init", ![t].pc = "once", ![t].entered = 0]
    /\ UNCHANGED <<g_basic_init, g_init_mu, lib, resolver>>

\* thread t calls grpc_ares_cleanup
CallCleanup(t) ==
    /\ th[t].pc = "idle"
    /\ th[t].calls < MaxCalls
    /\ th' = [th EXCEPT ![t].op = "cleanup", ![t].pc = "lock",
                        ![t].entered = 0]
    /\ UNCHANGED <<g_basic_init, g_init_mu, lib, resolver>>

\* line 441, gpr_once_init: the first caller runs do_basic_init (line 98),
\* which initializes the mutex, whoever holds it
OnceInit(t) ==
    /\ th[t].pc = "once"
    /\ IF g_basic_init
       THEN UNCHANGED <<g_basic_init, g_init_mu>>
       ELSE /\ g_basic_init' = TRUE
            /\ g_init_mu' = [inited |-> TRUE, holder |-> 0,
                             inits |-> g_init_mu.inits + 1]
    /\ th' = [th EXCEPT ![t].pc = "lock"]
    /\ UNCHANGED <<lib, resolver>>

\* lines 442 and 458, gpr_mu_lock.  A mutex that gpr_mu_init has not run
\* on is the zero-filled static object, which the lock takes as a free
\* mutex.
MuLock(t) ==
    /\ th[t].pc = "lock"
    /\ g_init_mu.holder = 0
    /\ g_init_mu' = [g_init_mu EXCEPT !.holder = t]
    /\ th' = [th EXCEPT ![t].pc = "call"]
    /\ UNCHANGED <<g_basic_init, lib, resolver>>

\* lines 443 and 459: the thread enters ares_library_init or
\* ares_library_cleanup
LibEnter(t) ==
    /\ th[t].pc = "call"
    /\ lib' = lib \cup {t}
    /\ th' = [th EXCEPT ![t].pc = "in"]
    /\ UNCHANGED <<g_basic_init, g_init_mu, resolver>>

\* the library call returns; ares_library_init returns a status
LibLeave(t) ==
    /\ th[t].pc = "in"
    /\ lib' = lib \ {t}
    /\ \E st \in (IF th[t].op = "init" THEN LibStatuses ELSE {"ARES_SUCCESS"}) :
          th' = [th EXCEPT ![t].pc = "unlock", ![t].status = st,
                           ![t].entered = @ + 1]
    /\ UNCHANGED <<g_basic_init, g_init_mu, resolver>>

\* lines 444 and 460, gpr_mu_unlock; grpc_ares_cleanup returns.  When
\* gpr_mu_init ran on the mutex while t held it, t unlocks a mutex that is
\* free or that another thread holds, which is undefined: the mutex is
\* freed, or left as it is.
MuUnlock(t) ==
    /\ th[t].pc = "unlock"
    /\ \/ g_init_mu' = [g_init_mu EXCEPT !.holder = 0]
       \/ /\ g_init_mu.holder /= t
          /\ UNCHANGED g_init_mu
    /\ th' = IF th[t].op = "init"
             THEN [th EXCEPT ![t].pc = "ret"]
             ELSE [th EXCEPT ![t].pc = "idle", ![t].op = "none",
                             ![t].calls = @ + 1]
    /\ UNCHANGED <<g_basic_init, lib, resolver>>

\* lines 446-454: grpc_ares_init returns an error or GRPC_ERROR_NONE
InitReturn(t) ==
    /\ th[t].pc = "ret"
    /\ th' = [th EXCEPT ![t].pc = "idle", ![t].op = "none",
                        ![t].calls = @ + 1,
                        ![t].status = "ARES_SUCCESS",
                        ![t].result = IF th[t].status /= "ARES_SUCCESS"
                                      THEN "ares_library_init failed"
                                      ELSE "GRPC_ERROR_NONE"]
    /\ UNCHANGED <<g_basic_init, g_init_mu, lib, resolver>>

(* -------------------------- the specification ------------------------- *)

Main ==
    \/ Parse
    \/ CreateFails
    \/ Create
    \/ Direct6
    \/ Direct4
    \/ IssueSrv
    \/ Start
    \/ Release

HostCb(q) ==
    \/ HostBegin(q)
    \/ \E t \in AddrTypes(q) : HostOk(q, t)
    \/ HostFail(q)
    \/ HostDestroy(q)

SrvCb ==
    \/ SrvEntry
    \/ SrvRead
    \/ SrvWrite
    \/ SrvIssue6
    \/ SrvIssue4
    \/ SrvStart
    \/ SrvUnref

Next ==
    \/ Main
    \/ \E q \in HostQ : HostCb(q)
    \/ SrvDeliver
    \/ SrvCb

Spec == Init /\ [][Next]_vars

\* Scheduling: a step that can be taken is not postponed forever.  The
\* library invokes the callback of every query it was handed, a thread that
\* is inside a callback or inside the call runs on, a thread waiting for
\* the mutex gets it once it is free for good.
\* The calls are those of one name with a port: which port string the call
\* was given does not decide which steps can be taken.
FairInit == Init /\ name = "srv.test:5000"

FairSpec == FairInit /\ [][Next]_vars /\ WF_vars(Next)

\* Plain resolves of the calls of PortCalls: the steps are those of Spec
\* that a plain resolve can take.
PortInit == InitOf(PortCalls) /\ ~is_lb_addrs_out

PortNext ==
    \/ Parse
    \/ CreateFails
    \/ Create
    \/ Direct6
    \/ Direct4
    \/ Start
    \/ Release
    \/ \E q \in {1, 2} : HostCb(q)

PortSpec == PortInit /\ [][PortNext]_vars

\* Threads that call grpc_ares_init and grpc_ares_cleanup, in any order
\* and number; no resolve call runs.
LibInit ==
    /\ Init
    /\ name = "srv.test" /\ default_port = NullPort
    /\ ~is_lb_addrs_out /\ ~ipv6_loopback

LibNext ==
    \E t \in Threads :
        \/ CallInit(t)
        \/ CallCleanup(t)
        \/ OnceInit(t)
        \/ MuLock(t)
        \/ LibEnter(t)
        \/ LibLeave(t)
        \/ MuUnlock(t)
        \/ InitReturn(t)

LibSpec == LibInit /\ [][LibNext]_vars

(* ------------------------------ the claims ---------------------------- *)

\* every query handed to the library has had its callback return
AllClosed == (\A q \in HostQ : ~Open(cb[q].pc)) /\ ~Open(srv.pc)

\* the call has returned and nothing is left to run
Quiescent == pc = "returned" /\ AllClosed

Created == r_state /= "none"

\* the hostname queries handed to the library so far
Issued == {q \in HostQ : cb[q].pc /= "none"}

\* the hostname queries whose callback has returned
Completed == {q \in HostQ : cb[q].pc = "done"}

\* C1: every call to a top-level resolve operation invokes on_done exactly
\* once, whatever the outcome of name parsing, of driver creation and of
\* the sub-queries: never twice, and once when the call is over and no
\* callback is left to run.
C1_OnDoneExactlyOnce ==
    /\ Len(on_done) <= 1
    /\ Quiescent => Len(on_done) = 1

\* C2: for a created request on_done is scheduled at most once, and when it
\* is scheduled no issued sub-query is outstanding (direct, SRV or spawned
\* from the SRV reply) and the call that issues queries has returned.
C2_OnDoneAfterAllQueries ==
    Created =>
        /\ Len(on_done) <= 1
        /\ on_done /= <<>> => AllClosed /\ pc = "returned"

C2_Witness ==
    /\ Len(on_done) = 1
    /\ hist.nested
    /\ srv.pc = "done"
    /\ cb[1].pc = "done" /\ cb[2].pc = "done"
    /\ cb[3].pc = "done" /\ cb[4].pc = "done"

\* C3: success-dominance: once a hostname sub-query has completed with
\* success (r->success set), the aggregated error is the no-error sentinel
\* in every later state, and on_done receives the no-error sentinel.
C3_SuccessDominance ==
    success =>
        /\ error = GRPC_ERROR_NONE
        /\ on_done /= <<>> => on_done[1] = GRPC_ERROR_NONE

\* C4: every read and write of r->success and r->error by a sub-query
\* completion callback happens with the request's mutex held.
C4_AccessUnderMutex == ~hist.unlocked

\* the creator's reference: held from gpr_ref_init to line 407
CreatorRef == IF pc \in {"v6", "v4", "srv", "start", "unref"} THEN 1 ELSE 0

SrvUnit == IF Open(srv.pc) THEN 1 ELSE 0

LiveHr == {q \in HostQ : hr[q].alive}

\* C5: while the request is live, the pending-query count is the creator's
\* reference (1 until released) plus the hostname sub-requests created and
\* not destroyed plus the unit of the SRV query (1 from its issue until its
\* callback releases it); a query in the hands of the library, or whose
\* callback runs, has its unit counted.
C5_PendingCount ==
    r_state = "live" =>
        /\ pending_queries = CreatorRef + Cardinality(LiveHr) + SrvUnit
        /\ \A q \in HostQ : Open(cb[q].pc) <=> hr[q].alive

C5_Witness ==
    /\ r_state = "live"
    /\ pc = "returned"
    /\ Open(srv.pc)
    /\ hr[2].alive /\ hr[4].alive
    /\ pending_queries = 3

\* C6: a created request and its driver are destroyed exactly once, when
\* the pending-query count goes from 1 to 0 (live with a count of at least
\* 1, freed with a count of 0), and nothing reads or writes the request or
\* uses its driver after that.
C6_DestroyedOnce ==
    /\ ~hist.uaf
    /\ hist.r_destroys <= 1 /\ hist.drv_destroys <= 1
    /\ r_state = "live" =>
          /\ pending_queries >= 1
          /\ DriverAlive
          /\ hist.r_destroys = 0 /\ hist.drv_destroys = 0
    /\ r_state = "freed" =>
          /\ pending_queries = 0
          /\ ev_driver = "destroyed"
          /\ hist.r_destroys = 1 /\ hist.drv_destroys = 1
          /\ Quiescent

C6_Witness ==
    /\ r_state = "freed"
    /\ hist.r_destroys = 1
    /\ cb[3].pc = "done"
    /\ srv.pc = "done"

\* C7: under fair scheduling (the library invokes every callback, every
\* thread that can run does), every created request eventually schedules
\* on_done and is destroyed together with its driver: a request does not
\* stay live for ever, it stops being live only by being freed, and a freed
\* request has scheduled on_done once and destroyed its driver.
C7_EventuallyDone ==
    /\ []<>(r_state /= "live")
    /\ [][r_state = "live" /\ r_state' /= "live" => r_state' = "freed"]_vars
    /\ [](r_state = "freed" =>
             Len(on_done) = 1 /\ ev_driver = "destroyed")

C7_Witness ==
    /\ r_state = "freed"
    /\ on_done /= <<>>
    /\ srv.nrec >= 1
    /\ cb[4].pc = "done"

\* C8: whenever on_done of a resolve call receives the no-error sentinel,
\* the caller's slot holds a list with at least one address.
C8_SuccessHasAddress ==
    (Created /\ on_done /= <<>> /\ on_done[1] = GRPC_ERROR_NONE) =>
        (addrs.present /\ Len(addrs.list) >= 1)

\* C9: whenever on_done of a created request receives a non-empty error,
\* every sub-query of the request completed with a non-success status: the
\* hostname queries (direct and spawned) and the SRV query.
C9_ErrorMeansAllFailed ==
    (Created /\ on_done /= <<>> /\ on_done[1] /= GRPC_ERROR_NONE) =>
        /\ \A q \in Completed : cb[q].status /= "ARES_SUCCESS"
        /\ srv.pc = "done" => srv.status /= "ARES_SUCCESS"

AllFailed == \A q \in Completed : cb[q].status /= "ARES_SUCCESS"

ChainIds(e) == {e[i].id : i \in 1..Len(e)}

\* C10: plain resolve, every attempted hostname sub-query fails: the slot
\* stays absent and on_done receives a chain of exactly one record per
\* attempted sub-query; during a plain resolve every failure makes the new
\* record the root and the chain so far its child.
C10_PlainTotalFailure ==
    /\ [](~is_lb_addrs_out /\ Created /\ on_done /= <<>> /\ AllFailed =>
            /\ ~addrs.present
            /\ Len(on_done[1]) = Cardinality(Issued)
            /\ ChainIds(on_done[1]) = Issued)
    /\ [][~is_lb_addrs_out /\ error' /= error /\ error' /= GRPC_ERROR_NONE =>
            Tail(error') = error]_vars

C10_Witness ==
    /\ ~is_lb_addrs_out
    /\ on_done /= <<>>
    /\ Len(on_done[1]) = 2
    /\ ~addrs.present
    /\ Completed = {1, 2}

\* the addresses of the host entries of the hostname queries 1..k that
\* completed with success
RECURSIVE AddrSum(_)
AddrSum(k) ==
    IF k = 0 THEN 0
    ELSE AddrSum(k - 1)
         + (IF cb[k].pc = "done" /\ cb[k].status = "ARES_SUCCESS"
            THEN cb[k].naddr ELSE 0)

\* C11: when on_done fires the output list has as many entries as the host
\* entries of the successfully completed hostname sub-queries hold
\* addresses, whatever the order of the completions; every change of the
\* list is one completion appending its addresses at the end as one batch,
\* in the order of its host entry, the entries already present unchanged.
C11_AppendOnly ==
    /\ [](Created /\ on_done /= <<>> =>
            Len(addrs.list) = AddrSum(2 * MaxSpawn + 2))
    /\ [][addrs' /= addrs =>
            \E q \in HostQ :
               /\ cb[q].pc = "ok" /\ cb'[q].pc = "destroy"
               /\ Len(addrs'.list) = Len(addrs.list) + cb[q].naddr
               /\ SubSeq(addrs'.list, 1, Len(addrs.list)) = addrs.list
               /\ \A j \in 1..cb[q].naddr :
                     addrs'.list[Len(addrs.list) + j].addr = <<q, j>>]_vars

C11_Witness ==
    /\ on_done /= <<>>
    /\ Len(addrs.list) = 2 * MaxAddrs
    /\ addrs.list[1].addr[1] = 4
    /\ addrs.list[MaxAddrs + 1].addr[1] = 2

\* the state of everything the resolve call may create or write, as it is
\* before the call
Untouched ==
    /\ ev_driver = "none"
    /\ r_state = "none"
    /\ pending_queries = 0
    /\ Issued = {}
    /\ srv.pc = "none"
    /\ \A q \in HostQ : ~hr[q].alive
    /\ addrs = [present |-> FALSE, list |-> <<>>]

\* C12: a name without a parseable host makes the call schedule on_done
\* with the "unparseable host:port" error, with or without a default port;
\* a name with a host and no port, with no default port, makes it schedule
\* on_done with the "no port in name" error; the error carries the name,
\* and no driver or request is created, no query issued, the slot not
\* written.
C12_ParseFailure ==
    pc /= "call" =>
        /\ gpr_split_host_port(name).host = NullHost =>
              /\ on_done = << <<[msg |-> "unparseable host:port",
                                 detail |-> name, id |-> 0]>> >>
              /\ pc = "returned"
              /\ Untouched
        /\ (/\ gpr_split_host_port(name).host /= NullHost
            /\ gpr_split_host_port(name).port = NullPort
            /\ default_port = NullPort) =>
              /\ on_done = << <<[msg |-> "no port in name",
                                 detail |-> name, id |-> 0]>> >>
              /\ pc = "returned"
              /\ Untouched

C12_Witness ==
    /\ pc = "returned"
    /\ name = "srv.test"
    /\ default_port = NullPort
    /\ Len(on_done) = 1
    /\ on_done[1][1].msg = "no port in name"

\* the hostname query an entry of the output list comes from
EntryQuery(e) == e.addr[1]

\* the SRV target record a spawned hostname query was issued for
RecordOf(q) == (q - 1) \div 2

IsDirect(q) == q \in {1, 2}

\* C13: in a load-balancer resolve every entry that comes from a hostname
\* sub-query spawned from an SRV target record is a balancer entry named
\* after that record's target host; every entry that comes from a direct
\* query for the target is no balancer entry and has no balancer name; no
\* entry has user data.
C13_BalancerEntries ==
    is_lb_addrs_out =>
        \A i \in 1..Len(addrs.list) :
            LET e == addrs.list[i] IN
            /\ e.user_data = "NULL"
            /\ IF IsDirect(EntryQuery(e))
               THEN ~e.is_balancer /\ e.balancer_name = NullHost
               ELSE e.is_balancer
                    /\ e.balancer_name = SrvHost(RecordOf(EntryQuery(e)))

C13_Witness ==
    /\ is_lb_addrs_out
    /\ on_done /= <<>>
    /\ \E i \in 1..Len(addrs.list) :
          addrs.list[i].is_balancer /\ addrs.list[i].balancer_name = "lb1.test"
    /\ \E i \in 1..Len(addrs.list) :
          ~addrs.list[i].is_balancer /\ addrs.list[i].balancer_name = NullHost

\* C14: the port of every hostname sub-request is in network byte order:
\* an entry that comes from a sub-query spawned from an SRV target record
\* with port P carries htons(P), the encoding the port-to-number mapping
\* gives the direct sub-queries.
C14_SrvPortNetworkOrder ==
    \A i \in 1..Len(addrs.list) :
        LET q == EntryQuery(addrs.list[i]) IN
        ~IsDirect(q) => addrs.list[i].port = htons(SrvPort(RecordOf(q)))

\* the port string the claim selects: the one in the name, else the
\* default port
SelectedPort ==
    IF gpr_split_host_port(name).port /= NullPort
    THEN gpr_split_host_port(name).port
    ELSE default_port

\* the value of the run of digits of s that starts at i, after acc
RECURSIVE atoi_from(_, _, _)
atoi_from(s, i, acc) ==
    IF i > Len(s) \/ ~IsDigit(s[i]) THEN acc
    ELSE atoi_from(s, i + 1, acc * 10 + DigitVal(s[i]))

\* the number the claim maps a port string to, lead(p) being the decimal
\* value at the start of a string that is neither "http" nor "https"
PortNumber(p, lead) ==
    IF p = <<"h", "t", "t", "p">> THEN 80
    ELSE IF p = <<"h", "t", "t", "p", "s">> THEN 443
    ELSE lead % 65536

\* every address of a direct sub-query carries the number n in network
\* byte order
DirectPortsAre(n) ==
    \A i \in 1..Len(addrs.list) :
        IsDirect(EntryQuery(addrs.list[i])) =>
            addrs.list[i].port = (n % 256) * 256 + (n \div 256)

\* C15 as stated: the port in the name is used whatever the default port,
\* the default port only when the name has none; "http" maps to 80, "https"
\* to 443, any other string to the value of its leading run of digits
\* modulo 2^16, 0 when it starts with no digit; every address of the direct
\* sub-queries carries that number in network byte order.
C15_PortMapping ==
    DirectPortsAre(PortNumber(SelectedPort, atoi_from(SelectedPort, 1, 0)))

\* the numbers of the port strings of PortCalls
KnownPorts ==
    /\ name = "srv.test:5000" => DirectPortsAre(5000)
    /\ name = "srv.test:443" => DirectPortsAre(443)
    /\ name = "srv.test:http" => DirectPortsAre(80)
    /\ name = "srv.test:70000" => DirectPortsAre(4464)
    /\ name = "srv.test:80abc" => DirectPortsAre(80)
    /\ name = "srv.test:abc" => DirectPortsAre(0)
    /\ name = "srv.test:-1" => DirectPortsAre(65535)
    /\ name = "srv.test: 80" => DirectPortsAre(80)
    /\ name = "srv.test:\t-2" => DirectPortsAre(65534)
    /\ name = "srv.test" /\ default_port = <<"h", "t", "t", "p">> =>
           DirectPortsAre(80)
    /\ name = "srv.test" /\ default_port = <<"h", "t", "t", "p", "s">> =>
           DirectPortsAre(443)
    /\ name = "srv.test" /\ default_port = <<"8", "0", "8", "0">> =>
           DirectPortsAre(8080)

\* C15, amended: as stated, but a string other than "http" and "https" maps
\* to the decimal integer at its start as atoi reads it, after blanks and
\* with its sign, modulo 2^16 (0 when no digit is found there).
C15_PortMappingSigned ==
    /\ DirectPortsAre(PortNumber(SelectedPort, atoi(SelectedPort)))
    /\ KnownPorts

C15_Witness ==
    /\ name = "srv.test:70000"
    /\ default_port = <<"h", "t", "t", "p">>
    /\ on_done /= <<>>
    /\ Len(addrs.list) = 2 * MaxAddrs
    /\ addrs.list[1].port = 28689

\* C16: with any threads calling grpc_ares_init and grpc_ares_cleanup at
\* any time, the process-wide mutex is initialized once, no two threads
\* are inside the library's global init or cleanup together, a call of
\* grpc_ares_init invokes the library's init once, and it returns no error
\* exactly when that invocation returned ARES_SUCCESS.
C16_InitSerialized ==
    /\ [](/\ g_init_mu.inits <= 1
          /\ g_basic_init => g_init_mu.inits = 1
          /\ Cardinality(lib) <= 1
          /\ \A t \in Threads :
                th[t].op = "init" /\ th[t].pc \in {"unlock", "ret"} =>
                    th[t].entered = 1)
    /\ [][\A t \in Threads :
            th[t].pc = "ret" /\ th'[t].pc = "idle" =>
                (th'[t].result = "GRPC_ERROR_NONE"
                    <=> th[t].status = "ARES_SUCCESS")]_vars

\* the hostname queries spawned from SRV target records
Spawned == {q \in HostQ : ~IsDirect(q)}

\* the queries the top-level call issues (0: the SRV query)
DirectIds == {0, 1, 2}

\* C17: a driver start follows every query handed to the library before
\* the issuing function gives up its reference: the top-level call has
\* issued its direct queries (and the SRV query in load-balancer mode) and
\* started the driver after them when it releases the creator's reference;
\* the SRV completion starts the driver once after the sub-queries of each
\* target record, before those of the next record and before it releases
\* the unit of the SRV query.
C17_StartAfterIssue ==
    /\ [](/\ (Created /\ pc \in {"unref", "returned"}) =>
                /\ hist.unpolled \cap DirectIds = {}
                /\ hist.starts >= 1
                /\ cb[2].pc /= "none"
                /\ ipv6_loopback => cb[1].pc /= "none"
                /\ is_lb_addrs_out => srv.pc /= "none"
          /\ srv.pc \in {"unref", "done"} => hist.unpolled \cap Spawned = {}
          /\ srv.pc \in {"v6", "v4", "start"} =>
                hist.unpolled \cap Spawned \subseteq
                    {2 * srv.it + 1, 2 * srv.it + 2}
          /\ (Created /\ Quiescent) => hist.starts = 1 + srv.nrec)
    /\ [][srv.it >= 1 /\ srv'.it /= srv.it =>
            /\ hist'.starts = hist.starts + 1
            /\ hist'.unpolled = {}]_vars

C17_Witness ==
    /\ Quiescent
    /\ is_lb_addrs_out
    /\ srv.nrec = 2
    /\ hist.starts = 3
    /\ hist.unpolled = {}

\* a step of the SRV completion callback
SrvStep == srv.pc /= "none" /\ srv' /= srv

\* C18: an SRV completion with ARES_SUCCESS does not set r->success, does
\* not change r->error and does not write the output list; when the answer
\* does not parse or holds no target record no hostname sub-request is
\* spawned; the completion, whatever its status, takes one unit off the
\* pending-query count, as its last step, and its other steps change the
\* count only by the unit of each sub-request they create.
C18_SrvFrame ==
    /\ [](~(srv.parsed /\ srv.nrec >= 1) =>
            \A q \in Spawned : cb[q].pc = "none" /\ ~hr[q].alive)
    /\ [][SrvStep /\ srv'.status = "ARES_SUCCESS" =>
            success' = success /\ error' = error /\ addrs' = addrs]_vars
    /\ [][SrvStep =>
            IF srv'.pc = "done"
            THEN srv.pc = "unref" /\ pending_queries' = pending_queries - 1
            ELSE IF srv.pc \in {"v6", "v4"}
            THEN pending_queries' = pending_queries + 1
            ELSE pending_queries' = pending_queries]_vars

C18_Witness ==
    /\ srv.pc = "done"
    /\ srv.status = "ARES_SUCCESS"
    /\ ~srv.parsed
    /\ r_state = "live"
    /\ pending_queries = 1
    /\ ~success
    /\ error /= GRPC_ERROR_NONE

\* the direct queries in the order the claim gives them
DirectOrder ==
    (IF ipv6_loopback THEN <<1>> ELSE <<>>) \o <<2>>
        \o (IF is_lb_addrs_out THEN <<0>> ELSE <<>>)

\* the queries spawned from the target records 1..k, in that order
RECURSIVE SpawnOrder(_)
SpawnOrder(k) ==
    IF k = 0 THEN <<>>
    ELSE SpawnOrder(k - 1)
         \o (IF ipv6_loopback THEN <<2 * k + 1>> ELSE <<>>) \o <<2 * k + 2>>

IsPrefix(a, b) == Len(a) <= Len(b) /\ SubSeq(b, 1, Len(a)) = a

\* C19: a created request issues one IPv4 query for the target, and one
\* IPv6 query before it exactly when IPv6 loopback is available; the SRV
\* query is issued in load-balancer mode only, once, after the direct
\* queries; for each SRV target record, in parser order, the IPv6 query
\* (when available) is issued before the IPv4 query, k records giving k or
\* 2k spawned queries.
C19_IssueOrder ==
    /\ IsPrefix(hist.order, DirectOrder \o SpawnOrder(srv.nrec))
    /\ (Created /\ pc \in {"start", "unref", "returned"}) =>
          IsPrefix(DirectOrder, hist.order)
    /\ (Created /\ Quiescent) =>
          /\ hist.order = DirectOrder \o SpawnOrder(srv.nrec)
          /\ Cardinality(Issued \cap Spawned) =
                 IF ipv6_loopback THEN 2 * srv.nrec ELSE srv.nrec
    /\ ~is_lb_addrs_out => srv.pc = "none"
    /\ ~ipv6_loopback => \A q \in HostQ : Family(q) = "AF_INET6" =>
                                              cb[q].pc = "none"

C19_Witness ==
    /\ Quiescent
    /\ hist.order = <<1, 2, 0, 3, 4>>
    /\ srv.nrec = 1

\* C20: when the count reaches zero and the mutex is destroyed no callback
\* holds the mutex or is about to take it: the holder of the mutex is a
\* hostname completion that has not yet given up its unit, and a
\* completion takes the mutex only before it does.
C20_MutexFreeAtDestroy ==
    /\ [](/\ mu /= 0 => /\ r_state = "live"
                         /\ cb[mu].pc \in {"ok", "fail"}
                         /\ hr[mu].alive
          /\ r_state = "freed" =>
                /\ mu = 0
                /\ \A q \in HostQ : cb[q].pc \notin {"pending", "ok", "fail"})
    /\ [][r_state = "live" /\ r_state' = "freed" =>
            /\ mu = 0
            /\ \A q \in HostQ : cb[q].pc \notin {"pending", "ok", "fail"}]_vars
    /\ [][mu' /= mu /\ mu' /= 0 =>
            cb[mu'].pc = "pending" /\ hr[mu'].alive]_vars

C20_Witness ==
    /\ r_state = "freed"
    /\ mu = 0
    /\ cb[2].pc = "done" /\ cb[2].status = "ARES_SUCCESS"
    /\ cb[4].pc = "done" /\ cb[4].status = "ARES_ENOTFOUND"
    /\ srv.pc = "done"

\* the frees one allocated string needs
Owed(p, null) == IF p = null THEN 0 ELSE 1

\* C21: when the top-level resolve call has returned, by whichever path
\* (parse failure, driver-creation failure, or after issuing its queries),
\* the host and port strings allocated while parsing the name have each
\* been freed once; the host-name copy of a hostname sub-request is freed
\* once, when its completion callback finishes.
C21_StringsFreedOnce ==
    /\ hist.host_frees <= 1 /\ hist.port_frees <= 1
    /\ pc = "returned" =>
          /\ hist.host_frees = Owed(host, NullHost)
          /\ hist.port_frees = Owed(port, NullPort)
    /\ \A q \in HostQ :
          hist.hr_frees[q] = IF cb[q].pc = "done" THEN 1 ELSE 0

=============================================================================
